---- MODULE Spec2Model ----
(***************************************************************************)
(* The persistent transaction ledger of Acrostic.Storage                   *)
(* (BlockchainStorage over two LevelDB stores) and the C boundary that     *)
(* exposes it through a process-wide singleton.                            *)
(*                                                                         *)
(* Byte strings and text are sequences of byte values, so that the         *)
(* store's bytewise key order, the formatting of the composite key and     *)
(* the binary encoding of a transaction are computed, not assumed.         *)
(***************************************************************************)
EXTENDS Integers, Sequences, FiniteSets, TLC

VARIABLES
    disk,        \* path -> [blocks, transactions]: the two LevelDB stores on disk
    clock,       \* chrono::Utc::now() in milliseconds
    ledger,      \* the BlockchainStorage instance owned by a caller of the core
    last,        \* the last call made on the core and what it returned
    nAppends,    \* number of add_transaction calls that returned Ok
    BLOCKCHAIN,  \* the boundary's singleton: Option<BlockchainStorage>, under its mutex
    pc,          \* thread -> where it is in a boundary call, and the locals it holds
    mutex,       \* the thread that holds the singleton's mutex, if any
    closed       \* history: the path and the transactions store of the ledger that
                 \* a Shutdown released, while no call but Init has followed it

vars == <<disk, clock, ledger, last, nAppends, BLOCKCHAIN, pc, mutex, closed>>

(***************************************************************************)
(* Bounds of the model.                                                    *)
(***************************************************************************)
MaxAppends == 2
MaxTicks == 1
MaxStores == 1

(***************************************************************************)
(* Option<T>                                                               *)
(***************************************************************************)
None == [some |-> FALSE]
Some(x) == [some |-> TRUE, val |-> x]

(***************************************************************************)
(* Text.  "tx:" and ":" of the composite key, the logical keys used as     *)
(* inputs, and the decimal formatting of an i64.                           *)
(***************************************************************************)
Colon == 58
Minus == 45
Zero == 48
TxPrefix == <<116, 120, Colon>>

KeyA == <<65>>
KeyA1 == <<65, 49>>
KeyAB == <<65, 66>>
KeyAColon == <<65, Colon>>

RECURSIVE FormatNat(_)
FormatNat(n) ==
    IF n < 10 THEN <<Zero + n>>
    ELSE FormatNat(n \div 10) \o <<Zero + (n % 10)>>

FormatInt(n) == IF n < 0 THEN <<Minus>> \o FormatNat(0 - n) ELSE FormatNat(n)

\* bytewise (memcmp) order of LevelDB's default comparator: a < b
RECURSIVE LexLess(_, _)
LexLess(a, b) ==
    IF b = <<>> THEN FALSE
    ELSE IF a = <<>> THEN TRUE
    ELSE IF Head(a) = Head(b) THEN LexLess(Tail(a), Tail(b))
    ELSE Head(a) < Head(b)

(***************************************************************************)
(* The data model: TransactionType by variant index, Transaction.          *)
(***************************************************************************)
StoreToken == 0
UpdateToken == 1
DeleteToken == 2
StoreCache == 3
UpdateCache == 4
DeleteCache == 5
TransactionType == StoreToken..DeleteCache

Transaction(tx_type, key, value, metadata, timestamp, signature, public_key) ==
    [transaction_type |-> tx_type,
     data |-> [key |-> key, value |-> value, metadata |-> metadata],
     timestamp |-> timestamp,
     signature |-> signature,
     public_key |-> public_key]

(***************************************************************************)
(* bincode.  A value is encoded as a sequence of tokens: the enum's        *)
(* variant index, each string / byte vector / map as its length followed   *)
(* by its elements, the timestamp.  Decoding reads the tokens back and     *)
(* fails on an unknown variant index or when the input ends early.         *)
(***************************************************************************)
EncodeBytes(b) == <<Len(b)>> \o b

\* the orders in which iterating over a HashMap of these entries can yield
\* them: the order follows the map's hasher, whose keys are drawn at random
\* for every map built (RandomState), so it is any order
IterationOrders(m) ==
    {o \in [1..Cardinality(m) -> m] : \A i, j \in DOMAIN o : i # j => o[i] # o[j]}

\* the entries of a map, in the order the iteration yields them
RECURSIVE EncodeEntries(_)
EncodeEntries(order) ==
    IF order = <<>> THEN <<>>
    ELSE EncodeBytes(Head(order)[1]) \o EncodeBytes(Head(order)[2])
            \o EncodeEntries(Tail(order))

EncodeMap(order) == <<Len(order)>> \o EncodeEntries(order)

\* bincode::serialize(&transaction), the metadata map iterating in `order`
SerializeIn(tx, order) ==
    <<tx.transaction_type>>
        \o EncodeBytes(tx.data.key)
        \o EncodeBytes(tx.data.value)
        \o EncodeMap(order)
        \o <<tx.timestamp>>
        \o EncodeBytes(tx.signature)
        \o EncodeBytes(tx.public_key)

\* bincode::serialize(&transaction) of a transaction whose metadata has at
\* most one entry, as every transaction given to the ledger here has: the
\* map then has one iteration order
Serialize(tx) ==
    SerializeIn(tx, CHOOSE o \in IterationOrders(tx.data.metadata) : TRUE)

Fail == [ok |-> FALSE]

DecodeBytes(s) ==
    IF Len(s) < 1 THEN Fail
    ELSE IF s[1] < 0 \/ Len(s) < 1 + s[1] THEN Fail
    ELSE [ok |-> TRUE, val |-> SubSeq(s, 2, 1 + s[1]), rest |-> SubSeq(s, 2 + s[1], Len(s))]

RECURSIVE DecodeEntries(_, _, _)
DecodeEntries(s, n, acc) ==
    IF n = 0 THEN [ok |-> TRUE, val |-> acc, rest |-> s]
    ELSE LET k == DecodeBytes(s) IN
         IF ~k.ok THEN Fail
         ELSE LET v == DecodeBytes(k.rest) IN
              IF ~v.ok THEN Fail
              ELSE DecodeEntries(v.rest, n - 1, acc \cup {<<k.val, v.val>>})

DecodeMap(s) ==
    IF Len(s) < 1 THEN Fail
    ELSE IF s[1] < 0 THEN Fail
    ELSE DecodeEntries(Tail(s), s[1], {})

Deserialize(s) ==
    IF Len(s) < 1 THEN Fail
    ELSE IF s[1] \notin TransactionType THEN Fail
    ELSE LET k == DecodeBytes(Tail(s)) IN
    IF ~k.ok THEN Fail
    ELSE LET v == DecodeBytes(k.rest) IN
    IF ~v.ok THEN Fail
    ELSE LET m == DecodeMap(v.rest) IN
    IF ~m.ok THEN Fail
    ELSE IF Len(m.rest) < 1 THEN Fail
    ELSE LET sg == DecodeBytes(Tail(m.rest)) IN
    IF ~sg.ok THEN Fail
    ELSE LET pk == DecodeBytes(sg.rest) IN
    IF ~pk.ok THEN Fail
    ELSE [ok |-> TRUE,
          tx |-> Transaction(s[1], k.val, v.val, m.val, Head(m.rest), sg.val, pk.val)]

(***************************************************************************)
(* A LevelDB store: a finite map from key bytes to value bytes.            *)
(***************************************************************************)
EmptyDb == <<>>

Put(db, k, v) == [x \in (DOMAIN db) \cup {k} |-> IF x = k THEN v ELSE db[x]]

Get(db, k) == IF k \in DOMAIN db THEN Some(db[k]) ELSE None

HeadKey == <<72, 69, 65, 68>>

(***************************************************************************)
(* BlockchainStorage::add_transaction                                      *)
(***************************************************************************)
CompositeKey(key, now) == TxPrefix \o key \o <<Colon>> \o FormatInt(now)

\* add_transaction with the result of the put discarded
add_transaction_IgnorePut(db, transaction, now, putOk) ==
    LET key == CompositeKey(transaction.data.key, now)
        data == Serialize(transaction)
    IN [ok |-> TRUE, db |-> IF putOk THEN Put(db, key, data) ELSE db]

\* putOk: whether the store's put succeeds; a put that fails writes nothing
add_transaction(db, transaction, now, putOk) ==
    LET key == CompositeKey(transaction.data.key, now)
        data == Serialize(transaction)
    IN IF putOk THEN [ok |-> TRUE, db |-> Put(db, key, data)]
       ELSE [ok |-> FALSE, db |-> db]

(***************************************************************************)
(* BlockchainStorage::get_latest_for_key                                   *)
(***************************************************************************)
SeekKey(key) == TxPrefix \o key

UpperBound(key) == TxPrefix \o key \o <<Colon>>

\* the keys the iterator yields: from the seek position up to, and not
\* including, the iterate-upper-bound
ScanRange(db, key) ==
    {k \in DOMAIN db : ~LexLess(k, SeekKey(key)) /\ LexLess(k, UpperBound(key))}

InitialScan == [latest |-> None, latest_time |-> 0]

\* the loop body with a value that does not decode ending the scan's
\* result instead of being skipped
ScanStep_ResetOnError(acc, value, tx_type) ==
    LET d == Deserialize(value) IN
    IF d.ok
    THEN IF d.tx.transaction_type = tx_type
         THEN IF d.tx.timestamp > acc.latest_time
              THEN [latest |-> Some(d.tx), latest_time |-> d.tx.timestamp]
              ELSE acc
         ELSE acc
    ELSE InitialScan

\* the loop body with a record replacing the one held when their
\* timestamps are equal
ScanStep_LastOfEqual(acc, value, tx_type) ==
    LET d == Deserialize(value) IN
    IF d.ok
    THEN IF d.tx.transaction_type = tx_type
         THEN IF d.tx.timestamp >= acc.latest_time
              THEN [latest |-> Some(d.tx), latest_time |-> d.tx.timestamp]
              ELSE acc
         ELSE acc
    ELSE acc

\* the body of the while loop, for one value the iterator yields
ScanStep(acc, value, tx_type) ==
    LET d == Deserialize(value) IN
    IF d.ok
    THEN IF d.tx.transaction_type = tx_type
         THEN IF d.tx.timestamp > acc.latest_time
              THEN [latest |-> Some(d.tx), latest_time |-> d.tx.timestamp]
              ELSE acc
         ELSE acc
    ELSE acc

MinKey(S) == CHOOSE k \in S : \A j \in S : j = k \/ LexLess(k, j)

RECURSIVE ScanLoop(_, _, _, _)
ScanLoop(db, remaining, tx_type, acc) ==
    IF remaining = {} THEN acc
    ELSE LET k == MinKey(remaining)
         IN ScanLoop(db, remaining \ {k}, tx_type, ScanStep(acc, db[k], tx_type))

get_latest_for_key(db, key, tx_type) ==
    [ok |-> TRUE,
     val |-> ScanLoop(db, ScanRange(db, key), tx_type, InitialScan).latest]

(***************************************************************************)
(* BlockchainStorage::new.  `held` are the paths whose stores are open in  *)
(* this process: LevelDB locks a store while a handle on it is open, and   *)
(* a second open of it fails.  `fail` is the step of the open that the     *)
(* environment makes fail, if any.  Every handle opened by a call that     *)
(* returns Err is dropped with it.                                         *)
(***************************************************************************)
OpenFailures == {"none", "dir", "blocks", "transactions", "head"}

\* new without the read of "HEAD"
BlockchainStorage_new_NoHead(d, path, held, fail) ==
    IF fail = "dir" THEN Fail
    ELSE IF fail = "blocks" \/ path \in held THEN Fail
    ELSE IF fail = "transactions" THEN Fail
    ELSE IF fail = "head" THEN Fail
    ELSE [ok |-> TRUE, storage |-> [path |-> path, head_hash |-> None]]

\* new with a blocks store that holds no "HEAD" taken for an error
BlockchainStorage_new_HeadRequired(d, path, held, fail) ==
    IF fail = "dir" THEN Fail
    ELSE IF fail = "blocks" \/ path \in held THEN Fail
    ELSE IF fail = "transactions" THEN Fail
    ELSE IF fail = "head" \/ ~Get(d[path].blocks, HeadKey).some THEN Fail
    ELSE [ok |-> TRUE,
          storage |-> [path |-> path, head_hash |-> Get(d[path].blocks, HeadKey)]]

BlockchainStorage_new(d, path, held, fail) ==
    IF fail = "dir" THEN Fail
    ELSE IF fail = "blocks" \/ path \in held THEN Fail
    ELSE IF fail = "transactions" THEN Fail
    ELSE IF fail = "head" THEN Fail
    ELSE [ok |-> TRUE,
          storage |-> [path |-> path, head_hash |-> Get(d[path].blocks, HeadKey)]]

(***************************************************************************)
(* The state.                                                              *)
(***************************************************************************)
Paths == {"p1", "p2"}

\* a HEAD left by an earlier finalization of a block
SomeHash == <<170, 187>>

FreshDir == [blocks |-> EmptyDb, transactions |-> EmptyDb]

HeadedDir == [blocks |-> Put(EmptyDb, HeadKey, SomeHash), transactions |-> EmptyDb]

InitialClock == 9

Threads == {"t1", "t2"}

Idle == [at |-> "idle"]

\* the paths whose stores some live BlockchainStorage of the process holds open
Held ==
    (IF ledger.some THEN {ledger.val.path} ELSE {})
        \cup (IF BLOCKCHAIN.some THEN {BLOCKCHAIN.val.path} ELSE {})
        \cup {pc[t].storage.path :
                t \in {u \in Threads : pc[u].at \in {"init_opened", "init_locked"}}}

Init ==
    /\ disk \in [Paths -> {FreshDir, HeadedDir}]
    /\ disk["p1"] # disk["p2"]
    /\ clock = InitialClock
    /\ ledger = None
    /\ last = [op |-> "none"]
    /\ nAppends = 0
    /\ BLOCKCHAIN = None
    /\ pc = [t \in Threads |-> Idle]
    /\ mutex = None
    /\ closed = None

(***************************************************************************)
(* Inputs of the core's operations.                                        *)
(***************************************************************************)
AppendKeys == {KeyA, KeyA1}
QueryKeys == {KeyA, KeyA1, KeyAColon}
Values == {<<1, 2, 3>>}
Types == {StoreToken, StoreCache}
Timestamps == {0, 1, 2}
CorePaths == {"p1"}

\* a second value, for two records that agree in all but the value
OtherValue == <<4, 5>>

\* the transactions appended: of the first type with every timestamp, of
\* the second with one, and one more that differs from another in the
\* value only
Transactions ==
    {Transaction(StoreToken, k, v, {}, ts, <<>>, <<>>) :
        k \in AppendKeys, v \in Values, ts \in Timestamps}
        \cup {Transaction(StoreCache, k, v, {}, 1, <<>>, <<>>) :
                k \in AppendKeys, v \in Values}
        \cup {Transaction(StoreToken, KeyA1, OtherValue, {}, 1, <<>>, <<>>)}

Garbage == <<255>>

(***************************************************************************)
(* The operations of the core, on the instance the caller owns.            *)
(***************************************************************************)
Open(path, fail) ==
    LET r == BlockchainStorage_new(disk, path, Held, fail) IN
    /\ ~ledger.some
    /\ ledger' = IF r.ok THEN Some(r.storage) ELSE ledger
    /\ last' = [op |-> "open", path |-> path, fail |-> fail, ok |-> r.ok]
    /\ UNCHANGED <<disk, clock, nAppends, BLOCKCHAIN, pc, mutex, closed>>

Release ==
    /\ ledger.some
    /\ ledger' = None
    /\ last' = [op |-> "release"]
    /\ UNCHANGED <<disk, clock, nAppends, BLOCKCHAIN, pc, mutex, closed>>

AddTransaction(tx, putOk) ==
    /\ ledger.some
    /\ nAppends < MaxAppends
    /\ LET p == ledger.val.path
           r == add_transaction(disk[p].transactions, tx, clock, putOk)
       IN /\ disk' = [disk EXCEPT ![p].transactions = r.db]
          /\ last' = [op |-> "append", tx |-> tx, now |-> clock, put |-> putOk,
                      ok |-> r.ok]
          /\ nAppends' = IF r.ok THEN nAppends + 1 ELSE nAppends
    /\ UNCHANGED <<clock, ledger, BLOCKCHAIN, pc, mutex, closed>>

GetLatestForKey(key, tx_type) ==
    /\ ledger.some
    /\ LET r == get_latest_for_key(disk[ledger.val.path].transactions, key, tx_type)
       IN last' = [op |-> "latest_for_key", key |-> key, tx_type |-> tx_type,
                   ok |-> r.ok, val |-> r.val]
    /\ UNCHANGED <<disk, clock, ledger, nAppends, BLOCKCHAIN, pc, mutex, closed>>

\* the clock advances
Tick ==
    /\ clock < InitialClock + MaxTicks
    /\ clock' = clock + 1
    /\ UNCHANGED <<disk, ledger, last, nAppends, BLOCKCHAIN, pc, mutex, closed>>

\* a stored value is damaged on disk and no longer decodes
Corrupt(path, k) ==
    /\ k \in DOMAIN disk[path].transactions
    /\ disk[path].transactions[k] # Garbage
    /\ disk' = [disk EXCEPT ![path].transactions = Put(@, k, Garbage)]
    /\ last' = [op |-> "corrupt"]
    /\ UNCHANGED <<clock, ledger, nAppends, BLOCKCHAIN, pc, mutex, closed>>

Next ==
    \/ \E p \in CorePaths, f \in OpenFailures : Open(p, f)
    \/ Release
    \/ \E tx \in Transactions, putOk \in BOOLEAN : AddTransaction(tx, putOk)
    \/ \E k \in QueryKeys, t \in Types : GetLatestForKey(k, t)
    \/ Tick
    \/ \E p \in CorePaths : \E k \in DOMAIN disk[p].transactions : Corrupt(p, k)

Spec == Init /\ [][Next]_vars

(***************************************************************************)
(* The C boundary (ffi.rs).  A C string argument is a null pointer, bytes  *)
(* that are not UTF-8, or text; a data argument is a null pointer or       *)
(* data_len bytes.                                                         *)
(***************************************************************************)
NullPtr == [null |-> TRUE]
BadUtf8 == [null |-> FALSE, utf8 |-> FALSE]
CStrOf(s) == [null |-> FALSE, utf8 |-> TRUE, str |-> s]
DataOf(b) == [null |-> FALSE, bytes |-> b]

\* the match with the last arm's variant mistaken for its neighbour's
TypeOfCode_Shifted(code) ==
    CASE code = 0 -> Some(StoreToken)
      [] code = 1 -> Some(UpdateToken)
      [] code = 2 -> Some(DeleteToken)
      [] code = 3 -> Some(StoreCache)
      [] code = 4 -> Some(UpdateCache)
      [] code = 5 -> Some(UpdateCache)
      [] OTHER -> None

\* match transaction_type { 0 => StoreToken, ..., 5 => DeleteCache, _ => return false }
TypeOfCode(code) ==
    CASE code = 0 -> Some(StoreToken)
      [] code = 1 -> Some(UpdateToken)
      [] code = 2 -> Some(DeleteToken)
      [] code = 3 -> Some(StoreCache)
      [] code = 4 -> Some(UpdateCache)
      [] code = 5 -> Some(DeleteCache)
      [] OTHER -> None

InitReturned(path, fail, locked, ret) ==
    [op |-> "initBlockchain", path |-> path, fail |-> fail, locked |-> locked, ret |-> ret]

\* an Init that releases the ledger the singleton holds before it opens the
\* new one, and leaves the singleton empty when the open fails
NBC_initBlockchain_ReleaseFirst(t, path, fail) ==
    /\ pc[t] = Idle
    /\ IF path.null
       THEN last' = InitReturned(path, fail, FALSE, FALSE) /\ pc' = pc
                /\ BLOCKCHAIN' = BLOCKCHAIN
       ELSE IF ~path.utf8
       THEN last' = InitReturned(path, fail, FALSE, FALSE) /\ pc' = pc
                /\ BLOCKCHAIN' = BLOCKCHAIN
       ELSE LET r == BlockchainStorage_new(disk, path.str, Held, fail) IN
            IF r.ok
            THEN /\ pc' = [pc EXCEPT ![t] = [at |-> "init_opened", path |-> path,
                                              fail |-> fail, locked |-> path.str \in Held,
                                              storage |-> r.storage]]
                 /\ last' = [op |-> "pending"]
                 /\ BLOCKCHAIN' = BLOCKCHAIN
            ELSE /\ last' = InitReturned(path, fail, path.str \in Held, FALSE)
                 /\ pc' = pc
                 /\ BLOCKCHAIN' = None
    /\ UNCHANGED <<disk, clock, ledger, nAppends, mutex, closed>>

\* NBC_initBlockchain up to the lock: the path is checked and the ledger is
\* opened while the singleton still holds what it held
NBC_initBlockchain(t, path, fail) ==
    /\ pc[t] = Idle
    /\ IF path.null
       THEN last' = InitReturned(path, fail, FALSE, FALSE) /\ pc' = pc
       ELSE IF ~path.utf8
       THEN last' = InitReturned(path, fail, FALSE, FALSE) /\ pc' = pc
       ELSE LET r == BlockchainStorage_new(disk, path.str, Held, fail) IN
            IF r.ok
            THEN /\ pc' = [pc EXCEPT ![t] = [at |-> "init_opened", path |-> path,
                                              fail |-> fail, locked |-> path.str \in Held,
                                              storage |-> r.storage]]
                 /\ last' = [op |-> "pending"]
            ELSE /\ last' = InitReturned(path, fail, path.str \in Held, FALSE)
                 /\ pc' = pc
    /\ UNCHANGED <<disk, clock, ledger, nAppends, BLOCKCHAIN, mutex, closed>>

\* the locked part keeping a ledger that is already open
NBC_initBlockchain_locked_KeepOpen(t) ==
    /\ pc[t].at = "init_opened"
    /\ BLOCKCHAIN' = IF BLOCKCHAIN.some THEN BLOCKCHAIN ELSE Some(pc[t].storage)
    /\ last' = InitReturned(pc[t].path, pc[t].fail, pc[t].locked, TRUE)
    /\ pc' = [pc EXCEPT ![t] = Idle]
    /\ UNCHANGED <<disk, clock, ledger, nAppends, mutex, closed>>

\* the locked part with a ledger whose transactions store was created anew
\* by the open
NBC_initBlockchain_locked_CreateNew(t) ==
    /\ pc[t].at = "init_opened"
    /\ BLOCKCHAIN' = Some(pc[t].storage)
    /\ disk' = [disk EXCEPT ![pc[t].storage.path].transactions = EmptyDb]
    /\ last' = InitReturned(pc[t].path, pc[t].fail, pc[t].locked, TRUE)
    /\ pc' = [pc EXCEPT ![t] = Idle]
    /\ UNCHANGED <<clock, ledger, nAppends, mutex, closed>>

\* NBC_initBlockchain under the lock: the singleton is replaced, and what it
\* held is dropped
NBC_initBlockchain_locked(t) ==
    /\ pc[t].at = "init_opened"
    /\ BLOCKCHAIN' = Some(pc[t].storage)
    /\ last' = InitReturned(pc[t].path, pc[t].fail, pc[t].locked, TRUE)
    /\ pc' = [pc EXCEPT ![t] = Idle]
    /\ UNCHANGED <<disk, clock, ledger, nAppends, mutex, closed>>

\* what a call of NBC_storeData did: `open` is whether a ledger was open,
\* `appendFailed` whether add_transaction was called and returned Err
StoreReturned(key, data, code, open, appendFailed, ret) ==
    [op |-> "storeData", key |-> key, data |-> data, code |-> code,
     open |-> open, appendFailed |-> appendFailed, ret |-> ret, now |-> clock]

\* NBC_storeData up to the lock: the parameters are checked and the
\* transaction is built, with the time of the call
NBC_storeData(t, key, data, code) ==
    /\ pc[t] = Idle
    /\ IF key.null \/ data.null
       THEN /\ last' = StoreReturned(key, data, code, BLOCKCHAIN.some, FALSE, FALSE)
            /\ pc' = pc
       ELSE IF Len(data.bytes) = 0
       THEN /\ last' = StoreReturned(key, data, code, BLOCKCHAIN.some, FALSE, FALSE)
            /\ pc' = pc
       ELSE IF ~key.utf8
       THEN /\ last' = StoreReturned(key, data, code, BLOCKCHAIN.some, FALSE, FALSE)
            /\ pc' = pc
       ELSE IF ~TypeOfCode(code).some
       THEN /\ last' = StoreReturned(key, data, code, BLOCKCHAIN.some, FALSE, FALSE)
            /\ pc' = pc
       ELSE /\ pc' = [pc EXCEPT ![t] =
                        [at |-> "store_built", key |-> key, data |-> data, code |-> code,
                         transaction |-> Transaction(TypeOfCode(code).val, key.str,
                                                     data.bytes, {}, clock, <<>>, <<>>)]]
            /\ last' = [op |-> "pending"]
    /\ closed' = None
    /\ UNCHANGED <<disk, clock, ledger, nAppends, BLOCKCHAIN, mutex>>

\* NBC_storeData under the lock
NBC_storeData_locked(t, putOk) ==
    /\ pc[t].at = "store_built"
    /\ (BLOCKCHAIN.some /\ putOk) => nAppends < MaxStores
    /\ IF BLOCKCHAIN.some
       THEN LET p == BLOCKCHAIN.val.path
                r == add_transaction(disk[p].transactions, pc[t].transaction, clock, putOk)
            IN /\ disk' = [disk EXCEPT ![p].transactions = r.db]
               /\ nAppends' = IF r.ok THEN nAppends + 1 ELSE nAppends
               /\ last' = StoreReturned(pc[t].key, pc[t].data, pc[t].code, TRUE, ~r.ok, r.ok)
               /\ closed' = IF r.ok THEN None ELSE closed
       ELSE /\ last' = StoreReturned(pc[t].key, pc[t].data, pc[t].code, FALSE, FALSE, FALSE)
            /\ UNCHANGED <<disk, nAppends, closed>>
    /\ pc' = [pc EXCEPT ![t] = Idle]
    /\ UNCHANGED <<clock, ledger, BLOCKCHAIN, mutex>>

Retrieved(key, code, open, ret, out) ==
    [op |-> "retrieveData", key |-> key, code |-> code, open |-> open, ret |-> ret,
     out |-> out]

\* a retrieval that takes the ledger out of the singleton (Option::take)
\* in place of borrowing it
NBC_retrieveData_Take(t, key, code, outNull, mallocOk) ==
    /\ pc[t] = Idle
    /\ IF key.null \/ outNull
       THEN last' = Retrieved(key, code, BLOCKCHAIN.some, FALSE, None)
                /\ BLOCKCHAIN' = BLOCKCHAIN
       ELSE IF ~key.utf8
       THEN last' = Retrieved(key, code, BLOCKCHAIN.some, FALSE, None)
                /\ BLOCKCHAIN' = BLOCKCHAIN
       ELSE IF ~TypeOfCode(code).some
       THEN last' = Retrieved(key, code, BLOCKCHAIN.some, FALSE, None)
                /\ BLOCKCHAIN' = BLOCKCHAIN
       ELSE IF BLOCKCHAIN.some
       THEN LET r == get_latest_for_key(disk[BLOCKCHAIN.val.path].transactions,
                                        key.str, TypeOfCode(code).val)
            IN /\ BLOCKCHAIN' = None
               /\ IF r.ok /\ r.val.some /\ mallocOk
                  THEN last' = Retrieved(key, code, TRUE, TRUE, Some(r.val.val.data.value))
                  ELSE last' = Retrieved(key, code, TRUE, FALSE, None)
       ELSE last' = Retrieved(key, code, FALSE, FALSE, None) /\ BLOCKCHAIN' = BLOCKCHAIN
    /\ closed' = None
    /\ UNCHANGED <<disk, clock, ledger, nAppends, pc, mutex>>

\* NBC_retrieveData: out is what *out_data / *out_len are set to
NBC_retrieveData(t, key, code, outNull, mallocOk) ==
    /\ pc[t] = Idle
    /\ IF key.null \/ outNull
       THEN last' = Retrieved(key, code, BLOCKCHAIN.some, FALSE, None)
       ELSE IF ~key.utf8
       THEN last' = Retrieved(key, code, BLOCKCHAIN.some, FALSE, None)
       ELSE IF ~TypeOfCode(code).some
       THEN last' = Retrieved(key, code, BLOCKCHAIN.some, FALSE, None)
       ELSE IF BLOCKCHAIN.some
       THEN LET r == get_latest_for_key(disk[BLOCKCHAIN.val.path].transactions,
                                        key.str, TypeOfCode(code).val)
            IN IF r.ok /\ r.val.some
               THEN IF mallocOk
                    THEN last' = Retrieved(key, code, TRUE, TRUE, Some(r.val.val.data.value))
                    ELSE last' = Retrieved(key, code, TRUE, FALSE, None)
               ELSE last' = Retrieved(key, code, TRUE, FALSE, None)
       ELSE last' = Retrieved(key, code, FALSE, FALSE, None)
    /\ closed' = None
    /\ UNCHANGED <<disk, clock, ledger, nAppends, BLOCKCHAIN, pc, mutex>>

\* what a Shutdown released: the path of the ledger the singleton held and
\* the transactions store as it was then
Released(blockchain) ==
    IF blockchain.some
    THEN Some([path |-> blockchain.val.path,
               transactions |-> disk[blockchain.val.path].transactions])
    ELSE None

\* the shutdown leaving the singleton as it is
NBC_shutdownBlockchain_Keep(t) ==
    /\ pc[t] = Idle
    /\ BLOCKCHAIN' = BLOCKCHAIN
    /\ last' = [op |-> "shutdownBlockchain", ret |-> TRUE]
    /\ closed' = Released(BLOCKCHAIN)
    /\ UNCHANGED <<disk, clock, ledger, nAppends, pc, mutex>>

\* NBC_shutdownBlockchain
NBC_shutdownBlockchain(t) ==
    /\ pc[t] = Idle
    /\ BLOCKCHAIN' = None
    /\ last' = [op |-> "shutdownBlockchain", ret |-> TRUE]
    /\ closed' = Released(BLOCKCHAIN)
    /\ UNCHANGED <<disk, clock, ledger, nAppends, pc, mutex>>

(***************************************************************************)
(* The boundary called by one thread of the host application.              *)
(***************************************************************************)
PathArgs == {NullPtr, BadUtf8, CStrOf("p1"), CStrOf("p2")}
StoreKeyArgs == {NullPtr, BadUtf8, CStrOf(KeyA1)}
RetrieveKeyArgs == {NullPtr, BadUtf8, CStrOf(KeyA), CStrOf(KeyA1)}
DataArgs == {NullPtr, DataOf(<<>>), DataOf(<<1, 2, 3>>)}
TypeCodes == {0, 5, 6}
HostThreads == {"t1"}

NextFFI ==
    \/ \E t \in HostThreads, p \in PathArgs, f \in OpenFailures : NBC_initBlockchain(t, p, f)
    \/ \E t \in HostThreads : NBC_initBlockchain_locked(t)
    \/ \E t \in HostThreads, k \in StoreKeyArgs, d \in DataArgs, c \in TypeCodes :
            NBC_storeData(t, k, d, c)
    \/ \E t \in HostThreads, putOk \in BOOLEAN : NBC_storeData_locked(t, putOk)
    \/ \E t \in HostThreads, k \in RetrieveKeyArgs, c \in TypeCodes,
          outNull \in BOOLEAN, mallocOk \in BOOLEAN :
            NBC_retrieveData(t, k, c, outNull, mallocOk)
    \/ \E t \in HostThreads : NBC_shutdownBlockchain(t)
    \/ Tick

SpecFFI == Init /\ [][NextFFI]_vars

(***************************************************************************)
(* The boundary called by several threads, in the steps that the mutex     *)
(* separates: a call runs up to BLOCKCHAIN.lock(), waits there until the   *)
(* mutex is free, and then works on the singleton, holding the mutex       *)
(* until it returns.  StoreRecord and RetrieveRecord first borrow the      *)
(* instance (`if let Some(storage) = &*blockchain`) and then call it.      *)
(***************************************************************************)
\* NBC_retrieveData up to the lock: the parameters are checked
NBC_retrieveData_checked(t, key, code, outNull) ==
    /\ pc[t] = Idle
    /\ IF key.null \/ outNull
       THEN last' = Retrieved(key, code, BLOCKCHAIN.some, FALSE, None) /\ pc' = pc
       ELSE IF ~key.utf8
       THEN last' = Retrieved(key, code, BLOCKCHAIN.some, FALSE, None) /\ pc' = pc
       ELSE IF ~TypeOfCode(code).some
       THEN last' = Retrieved(key, code, BLOCKCHAIN.some, FALSE, None) /\ pc' = pc
       ELSE /\ pc' = [pc EXCEPT ![t] = [at |-> "retrieve_checked", key |-> key,
                                         code |-> code]]
            /\ last' = [op |-> "pending"]
    /\ closed' = None
    /\ UNCHANGED <<disk, clock, ledger, nAppends, BLOCKCHAIN, mutex>>

\* NBC_shutdownBlockchain is called: its first statement is the lock
NBC_shutdownBlockchain_called(t) ==
    /\ pc[t] = Idle
    /\ pc' = [pc EXCEPT ![t] = [at |-> "shutdown_called"]]
    /\ last' = [op |-> "pending"]
    /\ UNCHANGED <<disk, clock, ledger, nAppends, BLOCKCHAIN, mutex, closed>>

AtLock == {"init_opened", "store_built", "retrieve_checked", "shutdown_called"}

Locked(at) ==
    CASE at = "init_opened" -> "init_locked"
      [] at = "store_built" -> "store_locked"
      [] at = "retrieve_checked" -> "retrieve_locked"
      [] at = "shutdown_called" -> "shutdown_locked"

\* a lock that is taken whoever holds the mutex
BLOCKCHAIN_lock_NoWait(t) ==
    /\ pc[t].at \in AtLock
    /\ mutex' = Some(t)
    /\ pc' = [pc EXCEPT ![t].at = Locked(pc[t].at)]
    /\ UNCHANGED <<disk, clock, ledger, last, nAppends, BLOCKCHAIN, closed>>

\* BLOCKCHAIN.lock().unwrap(): the thread goes on when no thread holds the mutex
BLOCKCHAIN_lock(t) ==
    /\ pc[t].at \in AtLock
    /\ mutex = None
    /\ mutex' = Some(t)
    /\ pc' = [pc EXCEPT ![t].at = Locked(pc[t].at)]
    /\ UNCHANGED <<disk, clock, ledger, last, nAppends, BLOCKCHAIN, closed>>

\* *blockchain = Some(storage); true -- the guard is dropped at the return
NBC_initBlockchain_assign(t) ==
    /\ pc[t].at = "init_locked"
    /\ BLOCKCHAIN' = Some(pc[t].storage)
    /\ last' = InitReturned(pc[t].path, pc[t].fail, pc[t].locked, TRUE)
    /\ pc' = [pc EXCEPT ![t] = Idle]
    /\ mutex' = None
    /\ UNCHANGED <<disk, clock, ledger, nAppends, closed>>

\* *blockchain = None; true
NBC_shutdownBlockchain_assign(t) ==
    /\ pc[t].at = "shutdown_locked"
    /\ BLOCKCHAIN' = None
    /\ last' = [op |-> "shutdownBlockchain", ret |-> TRUE]
    /\ closed' = Released(BLOCKCHAIN)
    /\ pc' = [pc EXCEPT ![t] = Idle]
    /\ mutex' = None
    /\ UNCHANGED <<disk, clock, ledger, nAppends>>

\* if let Some(storage) = &*blockchain, in NBC_storeData and NBC_retrieveData:
\* the call borrows the instance the singleton holds
Borrow(t, from, to) ==
    /\ pc[t].at = from
    /\ pc' = [pc EXCEPT ![t] = [pc[t] EXCEPT !.at = to] @@ [storage |-> BLOCKCHAIN]]
    /\ UNCHANGED <<disk, clock, ledger, last, nAppends, BLOCKCHAIN, mutex, closed>>

NBC_storeData_borrow(t) == Borrow(t, "store_locked", "store_using")

NBC_retrieveData_borrow(t) == Borrow(t, "retrieve_locked", "retrieve_using")

\* storage.add_transaction(transaction) on the borrowed instance, and the return
NBC_storeData_use(t, putOk) ==
    /\ pc[t].at = "store_using"
    /\ (pc[t].storage.some /\ putOk) => nAppends < MaxStores
    /\ IF pc[t].storage.some
       THEN LET p == pc[t].storage.val.path
                r == add_transaction(disk[p].transactions, pc[t].transaction, clock, putOk)
            IN /\ disk' = [disk EXCEPT ![p].transactions = r.db]
               /\ nAppends' = IF r.ok THEN nAppends + 1 ELSE nAppends
               /\ last' = StoreReturned(pc[t].key, pc[t].data, pc[t].code, TRUE, ~r.ok, r.ok)
               /\ closed' = IF r.ok THEN None ELSE closed
       ELSE /\ last' = StoreReturned(pc[t].key, pc[t].data, pc[t].code, FALSE, FALSE, FALSE)
            /\ UNCHANGED <<disk, nAppends, closed>>
    /\ pc' = [pc EXCEPT ![t] = Idle]
    /\ mutex' = None
    /\ UNCHANGED <<clock, ledger, BLOCKCHAIN>>

\* storage.get_latest_for_key(&key_str, &tx_type) on the borrowed instance,
\* the copy of the value, and the return
NBC_retrieveData_use(t, mallocOk) ==
    /\ pc[t].at = "retrieve_using"
    /\ IF pc[t].storage.some
       THEN LET r == get_latest_for_key(disk[pc[t].storage.val.path].transactions,
                                        pc[t].key.str, TypeOfCode(pc[t].code).val)
            IN IF r.ok /\ r.val.some /\ mallocOk
               THEN last' = Retrieved(pc[t].key, pc[t].code, TRUE, TRUE,
                                      Some(r.val.val.data.value))
               ELSE last' = Retrieved(pc[t].key, pc[t].code, TRUE, FALSE, None)
       ELSE last' = Retrieved(pc[t].key, pc[t].code, FALSE, FALSE, None)
    /\ pc' = [pc EXCEPT ![t] = Idle]
    /\ mutex' = None
    /\ UNCHANGED <<disk, clock, ledger, nAppends, BLOCKCHAIN, closed>>

MTPathArgs == {CStrOf("p1"), CStrOf("p2")}
MTKeyArgs == {BadUtf8, CStrOf(KeyA)}

NextMT ==
    \/ \E t \in Threads, p \in MTPathArgs : NBC_initBlockchain(t, p, "none")
    \/ \E t \in Threads : NBC_storeData(t, CStrOf(KeyA1), DataOf(<<1, 2, 3>>), 0)
    \/ \E t \in Threads, k \in MTKeyArgs : NBC_retrieveData_checked(t, k, 0, FALSE)
    \/ \E t \in Threads : NBC_shutdownBlockchain_called(t)
    \/ \E t \in Threads : BLOCKCHAIN_lock(t)
    \/ \E t \in Threads : NBC_initBlockchain_assign(t)
    \/ \E t \in Threads : NBC_shutdownBlockchain_assign(t)
    \/ \E t \in Threads : NBC_storeData_borrow(t)
    \/ \E t \in Threads : NBC_retrieveData_borrow(t)
    \/ \E t \in Threads, putOk \in BOOLEAN : NBC_storeData_use(t, putOk)
    \/ \E t \in Threads, mallocOk \in BOOLEAN : NBC_retrieveData_use(t, mallocOk)

SpecMT == Init /\ [][NextMT]_vars

\* where a thread works on the singleton or on the instance borrowed from it
UnderLock ==
    {"init_locked", "shutdown_locked", "store_locked", "retrieve_locked",
     "store_using", "retrieve_using"}

\* C15. Boundary serialization: a thread that works on the singleton (an
\* append, a scan, a replacement, a release) holds the mutex, at most one
\* thread does so at a time, and the instance a StoreRecord or
\* RetrieveRecord has borrowed is the one the singleton still holds.
C15_BoundarySerialization ==
    /\ \A t \in Threads : pc[t].at \in UnderLock => mutex = Some(t)
    /\ Cardinality({t \in Threads : pc[t].at \in UnderLock}) <= 1
    /\ \A t \in Threads :
          pc[t].at \in {"store_using", "retrieve_using"} => pc[t].storage = BLOCKCHAIN

\* a StoreRecord works on the instance it borrowed while a Shutdown waits
\* for the mutex
C15_Witness ==
    \E t, u \in Threads :
        /\ pc[t].at = "store_using"
        /\ pc[t].storage.some
        /\ pc[u].at = "shutdown_called"
        /\ mutex = Some(t)

(***************************************************************************)
(* Block::new (block/mod.rs).  A block is built in memory from a sequence  *)
(* of transactions; `orders` gives, for each transaction, the order in     *)
(* which its metadata map iterates when the sequence is serialized.        *)
(***************************************************************************)
\* blake3::hash(bytes).into(): a hash value stands for the bytes hashed, two
\* hashes being equal exactly when the bytes are (no collision)
Hash(bytes) == [blake3 |-> bytes]

RECURSIVE SerializeEach(_, _)
SerializeEach(transactions, orders) ==
    IF transactions = <<>> THEN <<>>
    ELSE SerializeIn(Head(transactions), Head(orders))
            \o SerializeEach(Tail(transactions), Tail(orders))

\* bincode::serialize(transactions): the length, then each transaction
SerializeSlice(transactions, orders) ==
    <<Len(transactions)>> \o SerializeEach(transactions, orders)

compute_merkle_root(transactions, orders) == Hash(SerializeSlice(transactions, orders))

Block(previous_hash, height, transactions, orders, now) ==
    [header |-> [version |-> 1,
                 previous_hash |-> previous_hash,
                 merkle_root |-> compute_merkle_root(transactions, orders),
                 timestamp |-> now,
                 height |-> height,
                 validator_signature |-> None],
     transactions |-> transactions]

\* Block::new(previous_hash, height, transactions)
Block_new(previous_hash, height, transactions, orders) ==
    /\ last' = [op |-> "Block_new", transactions |-> transactions,
                block |-> Block(previous_hash, height, transactions, orders, clock)]
    /\ UNCHANGED <<disk, clock, ledger, nAppends, BLOCKCHAIN, pc, mutex, closed>>

(***************************************************************************)
(* Blocks built over sequences of transactions.                            *)
(***************************************************************************)
MaxBlockLen == 2

Entry1 == <<<<97>>, <<1>>>>
Entry2 == <<<<98>>, <<2>>>>
MetadataMaps == {{}, {Entry1}, {Entry1, Entry2}}

BlockTransactions ==
    {Transaction(StoreToken, KeyA, <<1, 2, 3>>, m, 1, <<>>, <<>>) : m \in MetadataMaps}

BlockInputs == UNION {[1..n -> BlockTransactions] : n \in 0..MaxBlockLen}

\* the iteration orders the maps of a sequence of transactions can have
OrdersOf(transactions) ==
    {o \in [DOMAIN transactions -> UNION {IterationOrders(m) : m \in MetadataMaps}] :
        \A i \in DOMAIN transactions :
            o[i] \in IterationOrders(transactions[i].data.metadata)}

PreviousHashes == {Hash(<<>>)}
Heights == {0, 1}

NextBlock ==
    \/ \E prev \in PreviousHashes, h \in Heights, txs \in BlockInputs :
            \E orders \in OrdersOf(txs) : Block_new(prev, h, txs, orders)
    \/ Tick

SpecBlock == Init /\ [][NextBlock]_vars

\* C12. Merkle-root determinism: two constructions of a Block over the same
\* sequence of transactions, one after the other, give the same
\* merkle_root.
C12_MerkleRootDeterminism ==
    [][(/\ last.op = "Block_new"
        /\ last'.op = "Block_new"
        /\ last'.transactions = last.transactions)
       => last'.block.header.merkle_root = last.block.header.merkle_root]_vars

(***************************************************************************)
(* Properties of the core, stated on the ledger the caller has open.       *)
(***************************************************************************)
ClockValues == InitialClock..(InitialClock + MaxTicks)

\* the transactions store of the open ledger
Txs == disk[ledger.val.path].transactions

\* the keys of db under which appends for the logical key `key` are stored
RecordsFor(db, key) == {k \in DOMAIN db : \E n \in ClockValues : k = CompositeKey(key, n)}

Decodable(db) == {k \in DOMAIN db : Deserialize(db[k]).ok}

Restrict(db, K) == [k \in K |-> db[k]]

\* C1. Append/query round trip: after a successful append(tx), of a
\* transaction timestamped after the epoch, on an open ledger that holds
\* no other record for tx.data.key, latest_for_key(key, type) returns a
\* transaction, and its value is tx.data.value.
C1_RoundTrip ==
    (/\ ledger.some
     /\ last.op = "append"
     /\ last.ok
     /\ last.tx.timestamp > 0
     /\ RecordsFor(Txs, last.tx.data.key) = {CompositeKey(last.tx.data.key, last.now)})
    => LET r == get_latest_for_key(Txs, last.tx.data.key, last.tx.transaction_type)
       IN r.ok /\ r.val.some /\ r.val.val.data.value = last.tx.data.value

\* C2. Latest-wins: of two stored records with the same logical key and
\* type, timestamped after the epoch, the one with the smaller timestamp
\* is not what latest_for_key returns, and when they are the only records
\* the one with the greater timestamp is returned.
C2_LatestWins ==
    ledger.some =>
    \A key \in AppendKeys, t \in Types :
    \A k1, k2 \in RecordsFor(Txs, key) \cap Decodable(Txs) :
        LET tx1 == Deserialize(Txs[k1]).tx
            tx2 == Deserialize(Txs[k2]).tx
            r == get_latest_for_key(Txs, key, t)
        IN (/\ tx1.transaction_type = t
            /\ tx2.transaction_type = t
            /\ tx1.timestamp > 0
            /\ tx2.timestamp > tx1.timestamp)
           => /\ r.val # Some(tx1)
              /\ (DOMAIN Txs = {k1, k2} => r.val = Some(tx2))

\* C3. Type isolation: latest_for_key(key, t) never returns a transaction
\* of another type, and when the records stored for key all have a type
\* other than t, it returns none.
C3_TypeIsolation ==
    ledger.some =>
    \A key \in QueryKeys, t \in Types :
        LET r == get_latest_for_key(Txs, key, t)
            mine == RecordsFor(Txs, key)
        IN /\ r.val.some => r.val.val.transaction_type = t
           /\ (/\ mine # {}
               /\ mine \subseteq Decodable(Txs)
               /\ \A k \in mine : Deserialize(Txs[k]).tx.transaction_type # t)
              => ~r.val.some

\* the part of C3 the code keeps: the type of what is returned
TypeFilter ==
    ledger.some =>
    \A key \in QueryKeys, t \in Types :
        LET r == get_latest_for_key(Txs, key, t)
        IN r.val.some => r.val.val.transaction_type = t

IsProperPrefix(a, b) == Len(a) < Len(b) /\ SubSeq(b, 1, Len(a)) = a

\* C4. Prefix isolation: when key is a proper prefix of another logical
\* key, latest_for_key(key, t) does not return a record appended under
\* the other key.
C4_PrefixIsolation ==
    ledger.some =>
    \A key \in QueryKeys, other \in AppendKeys, t \in Types :
        IsProperPrefix(key, other) =>
            LET r == get_latest_for_key(Txs, key, t)
            IN r.val.some => r.val.val.data.key # other

\* C5. Corruption tolerance: with values in the store that do not decode,
\* latest_for_key succeeds and returns what it returns on the store
\* without those values.
C5_CorruptionTolerance ==
    ledger.some =>
    \A key \in QueryKeys, t \in Types :
        LET r == get_latest_for_key(Txs, key, t)
        IN /\ r.ok
           /\ r = get_latest_for_key(Restrict(Txs, Decodable(Txs)), key, t)

\* a query whose scan met a value that does not decode and a valid record
\* of the type asked for, and returned a record
C5_Witness ==
    /\ ledger.some
    /\ last.op = "latest_for_key"
    /\ last.ok
    /\ last.val.some
    /\ \E bad, good \in ScanRange(Txs, last.key) :
        /\ bad \notin Decodable(Txs)
        /\ good \in Decodable(Txs)
        /\ Deserialize(Txs[good]).tx.transaction_type = last.tx_type
    /\ last.val = get_latest_for_key(Txs, last.key, last.tx_type).val

\* C9. Dormant block store: no step changes the blocks store of any path
\* or the head_hash of the open ledger, and head_hash is the value of
\* "HEAD" in the blocks store.
C9_DormantBlockStore ==
    /\ [](ledger.some => ledger.val.head_hash = Get(disk[ledger.val.path].blocks, HeadKey))
    /\ [][/\ \A p \in Paths : disk'[p].blocks = disk[p].blocks
          /\ (ledger.some /\ ledger'.some) => ledger'.val.head_hash = ledger.val.head_hash]_vars

\* a ledger opened on a path whose blocks store holds a HEAD, appended to
\* and queried
C9_Witness ==
    /\ ledger.some
    /\ ledger.val.head_hash = Some(SomeHash)
    /\ DOMAIN Txs # {}
    /\ last.op = "latest_for_key"

\* C10. Append-only: the transactions stores hold as many records as
\* appends have succeeded.
C10_AppendOnly ==
    LET Count(p) == Cardinality(DOMAIN disk[p].transactions)
    IN Count("p1") + Count("p2") = nAppends

\* C11. Failed append records nothing: when the store's put fails, append
\* returns an error and every store of every path holds what it held, so
\* that a later latest_for_key scans the records it would have scanned.
C11_FailedAppend ==
    [][(clock' = clock /\ last'.op = "append" /\ ~last'.put) =>
          /\ ~last'.ok
          /\ disk' = disk
          /\ nAppends' = nAppends
          /\ ledger' = ledger]_vars

\* an append has failed on a ledger that holds a record, and there is no
\* record under its composite key
C11_Witness ==
    /\ ledger.some
    /\ last.op = "append"
    /\ ~last.put
    /\ ~last.ok
    /\ DOMAIN Txs # {}
    /\ CompositeKey(last.tx.data.key, last.now) \notin DOMAIN Txs

\* the transaction stored under k
TxAt(db, k) == Deserialize(db[k]).tx

\* the records the scan for key visits, decodes and finds of type t
Visited(db, key, t) ==
    {k \in ScanRange(db, key) \cap Decodable(db) : TxAt(db, k).transaction_type = t}

\* those of the records K that carry the greatest timestamp of K
Greatest(db, K) ==
    {k \in K : \A j \in K : TxAt(db, j).timestamp <= TxAt(db, k).timestamp}

MaxKey(S) == CHOOSE k \in S : \A j \in S : j = k \/ LexLess(j, k)

C14_NoneOnlyWhenNothingMatches ==
    (ledger.some /\ last.op = "latest_for_key") =>
        LET matching == {k \in Decodable(Txs) :
                            /\ TxAt(Txs, k).data.key = last.key
                            /\ TxAt(Txs, k).transaction_type = last.tx_type}
        IN /\ last.val.some <=> matching # {}
           /\ matching # {} =>
                \A k \in matching : TxAt(Txs, k).timestamp <= last.val.val.timestamp

\* what the code keeps of C14: a transaction that is returned is
\* timestamped after the epoch
EpochFloor ==
    (ledger.some /\ last.op = "latest_for_key" /\ last.val.some)
        => last.val.val.timestamp > 0

\* C16. Open state machine: open(path) returns a ledger exactly when no
\* step of it fails (the directory, the blocks store, the transactions
\* store, the read of "HEAD"); the ledger is then the one at path, with
\* head_hash the value of "HEAD" in the blocks store, none when the store
\* holds no "HEAD"; when a step fails there is no ledger and no store of
\* any path is held open.
C16_OpenStateMachine ==
    last.op = "open" =>
        /\ last.ok <=> last.fail = "none"
        /\ last.ok =>
              /\ ledger = Some([path |-> last.path,
                                head_hash |-> Get(disk[last.path].blocks, HeadKey)])
              /\ HeadKey \notin DOMAIN disk[last.path].blocks => ledger.val.head_hash = None
              /\ Held = {last.path}
        /\ ~last.ok => ~ledger.some /\ Held = {}

\* a ledger has been opened on a path whose blocks store holds no "HEAD"
\* and whose transactions store holds a record
C16_Witness ==
    /\ last.op = "open"
    /\ last.ok
    /\ ledger.some
    /\ ledger.val.head_hash = None
    /\ DOMAIN Txs # {}

(***************************************************************************)
(* Properties of the boundary.  Every step of the boundary but Tick is a   *)
(* part of a call, and sets `last`.                                        *)
(***************************************************************************)
Returned(op) == clock' = clock /\ last'.op = op

\* C6. Boundary lifecycle: Shutdown returns true and leaves no ledger
\* open; with no ledger open, StoreRecord returns false and RetrieveRecord
\* returns absent, and neither changes a store or opens a ledger.
C6_BoundaryLifecycle ==
    [][/\ Returned("shutdownBlockchain") => last'.ret /\ ~BLOCKCHAIN'.some
       /\ (~BLOCKCHAIN.some /\ Returned("storeData"))
            => ~last'.ret /\ disk' = disk /\ ~BLOCKCHAIN'.some
       /\ (~BLOCKCHAIN.some /\ Returned("retrieveData"))
            => ~last'.ret /\ ~last'.out.some /\ disk' = disk /\ ~BLOCKCHAIN'.some]_vars

\* StoreRecord with valid arguments has returned false after a Shutdown
\* that followed a successful StoreRecord
C6_Witness ==
    /\ ~BLOCKCHAIN.some
    /\ nAppends > 0
    /\ last.op = "storeData"
    /\ ~last.open
    /\ ~last.ret
    /\ last.key = CStrOf(KeyA1)
    /\ last.data = DataOf(<<1, 2, 3>>)
    /\ last.code \in TransactionType

\* the arguments C7 is about: a key that is text, a byte string, one of
\* the six types
InClaimDomain(l) ==
    /\ ~l.key.null
    /\ l.key.utf8
    /\ ~l.data.null
    /\ l.code \in TransactionType

C17_StoreOrder ==
    (last.op = "storeData" /\ last.ret /\ BLOCKCHAIN.some) =>
        LET r == get_latest_for_key(disk[BLOCKCHAIN.val.path].transactions,
                                    last.key.str, TypeOfCode(last.code).val)
        IN r.ok /\ r.val.some /\ r.val.val.data.value = last.data.bytes

\* C18. Failed Init changes nothing: a call of Init that returns false
\* leaves the singleton, the stores, the handles held and all else as they
\* were, and a RetrieveRecord that follows it finds open the ledger that
\* was open before.
C18_FailedInit ==
    [][/\ (Returned("initBlockchain") /\ ~last'.ret) =>
             /\ BLOCKCHAIN' = BLOCKCHAIN
             /\ Held' = Held
             /\ UNCHANGED <<disk, clock, ledger, nAppends, pc, mutex, closed>>
       /\ (/\ last.op = "initBlockchain"
           /\ ~last.ret
           /\ BLOCKCHAIN.some
           /\ Returned("retrieveData"))
            => last'.open /\ BLOCKCHAIN' = BLOCKCHAIN]_vars

\* Init has returned false on the path of the open ledger, which holds a
\* record: the store is locked
C18_Witness ==
    /\ last.op = "initBlockchain"
    /\ ~last.ret
    /\ last.locked
    /\ BLOCKCHAIN.some
    /\ BLOCKCHAIN.val.path = last.path.str
    /\ DOMAIN disk[BLOCKCHAIN.val.path].transactions # {}

\* C19. Durability across the lifecycle: when Init has returned true on the
\* path of the ledger that a Shutdown released, the transactions store
\* holds the records it held at the Shutdown, and the scan of every
\* RetrieveRecord returns what it returned then.
C19_Durability ==
    (/\ last.op = "initBlockchain"
     /\ last.ret
     /\ BLOCKCHAIN.some
     /\ closed.some
     /\ closed.val.path = BLOCKCHAIN.val.path)
    => LET now == disk[BLOCKCHAIN.val.path].transactions
           then == closed.val.transactions
       IN /\ now = then
          /\ \A k \in {KeyA, KeyA1}, t \in TransactionType :
                get_latest_for_key(now, k, t) = get_latest_for_key(then, k, t)

\* Init has returned true on the path of the ledger that a Shutdown
\* released, and a RetrieveRecord finds a record there
C19_Witness ==
    /\ last.op = "initBlockchain"
    /\ last.ret
    /\ BLOCKCHAIN.some
    /\ closed.some
    /\ closed.val.path = BLOCKCHAIN.val.path
    /\ \E t \in TransactionType :
          get_latest_for_key(disk[BLOCKCHAIN.val.path].transactions, KeyA, t).val.some

\* C20. Queries are read-only: a RetrieveRecord, with the latest_for_key it
\* calls, whatever it returns, leaves the transactions and blocks stores,
\* the singleton with its head_hash, and the handles held as they were;
\* and a RetrieveRecord that follows another for the same key and type,
\* both returning a value, returns the same value.
C20_ReadOnly ==
    [][Returned("retrieveData") =>
          /\ disk' = disk
          /\ BLOCKCHAIN' = BLOCKCHAIN
          /\ Held' = Held
          /\ UNCHANGED <<ledger, nAppends, pc, mutex>>
          /\ (/\ last.op = "retrieveData"
              /\ last.ret
              /\ last'.ret
              /\ last'.key = last.key
              /\ last'.code = last.code)
               => last'.out = last.out]_vars

\* a RetrieveRecord has returned a value from the open ledger
C20_Witness ==
    /\ last.op = "retrieveData"
    /\ last.ret
    /\ last.out.some
    /\ BLOCKCHAIN.some
    /\ DOMAIN disk[BLOCKCHAIN.val.path].transactions # {}

\* C8. Init outcome: Init(path) returns true exactly when the ledger at
\* path is opened (the path is text, no step of the open fails, the store
\* is not locked); after a true return the singleton is the ledger at
\* path; until the next Init or Shutdown the singleton stays what it is,
\* StoreRecord writes to the store of its path only and RetrieveRecord
\* returns a value of that store.
C8_InitOutcome ==
    /\ []((last.op = "initBlockchain" /\ last.ret)
            => BLOCKCHAIN.some /\ BLOCKCHAIN.val.path = last.path.str)
    /\ [][/\ Returned("initBlockchain") =>
                (last'.ret <=> (/\ ~last'.path.null
                                /\ last'.path.utf8
                                /\ last'.fail = "none"
                                /\ ~last'.locked))
          /\ (Returned("initBlockchain") /\ ~last'.ret) => BLOCKCHAIN' = BLOCKCHAIN
          /\ (Returned("storeData") \/ Returned("retrieveData") \/ Returned("pending"))
                => BLOCKCHAIN' = BLOCKCHAIN
          /\ (Returned("storeData") /\ last'.ret) =>
                /\ BLOCKCHAIN.some
                /\ \A q \in Paths \ {BLOCKCHAIN.val.path} : disk'[q] = disk[q]
                /\ disk'[BLOCKCHAIN.val.path] # disk[BLOCKCHAIN.val.path]
                     \/ CompositeKey(last'.key.str, clock)
                          \in DOMAIN disk[BLOCKCHAIN.val.path].transactions
          /\ (Returned("retrieveData") /\ last'.ret) =>
                /\ BLOCKCHAIN.some
                /\ \E k \in DOMAIN disk[BLOCKCHAIN.val.path].transactions :
                      LET d == Deserialize(disk[BLOCKCHAIN.val.path].transactions[k])
                      IN d.ok /\ d.tx.data.value = last'.out.val]_vars

\* Init has returned true on a path while the ledger of the other path,
\* which holds a record, was open
C8_Witness ==
    /\ last.op = "initBlockchain"
    /\ last.ret
    /\ last.path = CStrOf("p2")
    /\ BLOCKCHAIN.some
    /\ BLOCKCHAIN.val.path = "p2"
    /\ DOMAIN disk["p1"].transactions # {}

====
